---- MODULE Spec2Model ----
(***************************************************************************)
(* Model of packages/wxt/src/core/generate-wxt-dir.ts: the pass that       *)
(* generates the .wxt type layer (paths.d.ts, i18n.d.ts, globals.d.ts,     *)
(* tsconfig.json, wxt.d.ts) and writes it to disk with diffing writes.     *)
(*                                                                         *)
(* A text is a sequence of lines.  A line is a record [s, arg]: s is the   *)
(* line's fixed template text and arg the sequence of strings substituted  *)
(* into it (empty for a fixed line).  A path of an entry is a sequence of  *)
(* segments; a public path is a sequence of one-character strings, so      *)
(* that its code units can be compared the way Array.prototype.sort does.  *)
(* Template literals' back quotes are written as single quotes.            *)
(***************************************************************************)
EXTENDS Integers, Sequences, FiniteSets, TLC

VARIABLES
    entrypoints,   \* argument of generateWxtDir: sequence of [name, html]
    publicFiles,   \* result of getPublicFiles(): sequence of public paths
    config,        \* wxt.config: userModules, extensionApi
    localeFile,    \* <publicDir>/_locales/<default_locale>/messages.json
    hooks,         \* registered hook behaviour: publicPaths, types, typesThrows
    pc,            \* position of the current pass inside generateWxtDir
    entries,       \* the local `entries` array of the current pass
    tasks,         \* the promises of the write phase, one per file entry
    disk,          \* files on disk: absolute path -> text
    dirs,          \* directories on disk
    hookCalls,     \* number of prepare:types invocations of the current pass
    hookSaw,       \* the collection as handed to the prepare:types hook
    writes,        \* number of fs.writeFile calls of the current pass
    diskAtStart,   \* the files on disk when the current pass started
    passNo,        \* number of passes started
    prevCompleted, \* the pass before the current one resolved, and no input
                   \* changed between the two
    fsFault        \* the filesystem operation that fails: [op, path]

vars == << entrypoints, publicFiles, config, localeFile, hooks, fsFault, pc, entries,
           tasks, disk, dirs, hookCalls, hookSaw, writes, diskAtStart, passNo,
           prevCompleted >>

inputs == << entrypoints, publicFiles, config, localeFile, hooks, fsFault >>

(***************************************************************************)
(* Bounds of the model.                                                    *)
(***************************************************************************)
MaxEntrypoints == 2
MaxPublicFiles == 1
MaxHookPaths == 1
MaxMessages == 2
MaxHookEntries == 2
MaxPasses == 2

(***************************************************************************)
(* Lines and small sequence helpers.                                       *)
(***************************************************************************)
Line(s, arg) == [s |-> s, arg |-> arg]

L(s) == Line(s, << >>)

RECURSIVE Flatten(_)
Flatten(ss) == IF ss = << >> THEN << >> ELSE Head(ss) \o Flatten(Tail(ss))

Map(F(_), seq) == [i \in 1..Len(seq) |-> F(seq[i])]

\* Array.prototype.join: the pieces with the separator between them.
RECURSIVE Join(_, _)
Join(seq, sep) ==
    IF Len(seq) <= 1 THEN seq
    ELSE << Head(seq), sep >> \o Join(Tail(seq), sep)

Marker == "// Generated by wxt"

(***************************************************************************)
(* node:path on segment sequences.  WxtDir is wxt.config.wxtDir.           *)
(***************************************************************************)
Root == << "project" >>

WxtDir == << "project", ".wxt" >>

TypesDir == << "project", ".wxt", "types" >>

OutBaseDir == << "project", ".output" >>

RECURSIVE Walk(_, _)
Walk(base, segs) ==
    IF segs = << >> THEN base
    ELSE IF Head(segs) = "." THEN Walk(base, Tail(segs))
    ELSE IF Head(segs) = ".."
         THEN Walk(IF base = << >> THEN base ELSE SubSeq(base, 1, Len(base) - 1),
                   Tail(segs))
    ELSE Walk(Append(base, Head(segs)), Tail(segs))

\* path.resolve(from, p) for a relative p
resolve(from, p) == Walk(from, p)

RECURSIVE CommonLen(_, _)
CommonLen(a, b) ==
    IF a = << >> \/ b = << >> \/ Head(a) # Head(b) THEN 0
    ELSE 1 + CommonLen(Tail(a), Tail(b))

\* path.relative(from, to) for two absolute paths
relative(from, to) ==
    LET c == CommonLen(from, to)
    IN  [i \in 1..(Len(from) - c) |-> ".."] \o SubSeq(to, c + 1, Len(to))

dirname(p) == SubSeq(p, 1, Len(p) - 1)

(***************************************************************************)
(* Public paths: sequences of one-character strings.                       *)
(***************************************************************************)
Code(c) ==
    CASE c = "." -> 46
      [] c = "/" -> 47
      [] c = "\\" -> 92
      [] c = "a" -> 97
      [] c = "b" -> 98
      [] c = "c" -> 99
      [] c = "g" -> 103
      [] c = "h" -> 104
      [] c = "j" -> 106
      [] c = "l" -> 108
      [] c = "m" -> 109
      [] c = "n" -> 110
      [] c = "p" -> 112
      [] c = "s" -> 115
      [] c = "t" -> 116

\* utils/paths normalizePath on a public path: forward-slash form
normalizePath(p) == [i \in 1..Len(p) |-> IF p[i] = "\\" THEN "/" ELSE p[i]]

\* utils/entrypoints getEntrypointBundlePath(entry, outDir, ext)
getEntrypointBundlePath(entry, ext) == entry.name \o ext

isHtmlEntrypoint(entry) == entry.html

\* the default comparison of Array.prototype.sort: by UTF-16 code units
RECURSIVE StrLess(_, _)
StrLess(a, b) ==
    IF b = << >> THEN FALSE
    ELSE IF a = << >> THEN TRUE
    ELSE IF Code(Head(a)) # Code(Head(b)) THEN Code(Head(a)) < Code(Head(b))
    ELSE StrLess(Tail(a), Tail(b))

RECURSIVE Insert(_, _)
Insert(x, sorted) ==
    IF sorted = << >> THEN << x >>
    ELSE IF StrLess(x, Head(sorted)) THEN << x >> \o sorted
    ELSE << Head(sorted) >> \o Insert(x, Tail(sorted))

RECURSIVE sort(_)
sort(seq) ==
    IF seq = << >> THEN << >>
    ELSE Insert(seq[Len(seq)], sort(SubSeq(seq, 1, Len(seq) - 1)))

(***************************************************************************)
(* Entries: WxtDirEntry is { module } or { path, text, tsReference? }.     *)
(***************************************************************************)
ModuleEntry(id) ==
    [kind |-> "module", module |-> id, path |-> << >>, text |-> << >>,
     tsReference |-> FALSE]

FileEntry(path, text, tsReference) ==
    [kind |-> "file", module |-> "", path |-> path, text |-> text,
     tsReference |-> tsReference]

UnionLine(path) == Line("    | \"/{path}\"", path)

NeverLine == L("    | never")

PathsHead ==
    << L(Marker), L("import \"wxt/browser\";"), L(""),
       L("declare module \"wxt/browser\" {"), L("  export type PublicPath =") >>

PathsTail ==
    << L("  type HtmlPublicPath = Extract<PublicPath, '${string}.html'>"),
       L("  export interface WxtRuntime {"),
       L("    getURL(path: PublicPath): string;"),
       L("    getURL(path: '${HtmlPublicPath}${string}'): string;"),
       L("  }"), L("}"), L("") >>

HtmlExt == << ".", "h", "t", "m", "l" >>

JsExt == << ".", "j", "s" >>

\* the `paths` array as it stands after the prepare:publicPaths hook
PublicPaths(eps, files, hookPaths) ==
    [i \in 1..Len(eps) |->
        getEntrypointBundlePath(eps[i],
            IF isHtmlEntrypoint(eps[i]) THEN HtmlExt ELSE JsExt)]
    \o files \o hookPaths

\* getPathsDeclarationEntry without the .sort() of line 87
getPathsDeclarationEntryUnsorted(eps, files, hookPaths) ==
    LET paths  == PublicPaths(eps, files, hookPaths)
        unions == Map(UnionLine, Map(normalizePath, paths))
    IN  FileEntry(<< "types", "paths.d.ts" >>,
                  PathsHead
                  \o (IF unions = << >> THEN << NeverLine >> ELSE unions)
                  \o PathsTail,
                  TRUE)

getPathsDeclarationEntry(eps, files, hookPaths) ==
    LET paths  == PublicPaths(eps, files, hookPaths)
        unions == Map(UnionLine, sort(Map(normalizePath, paths)))
    IN  FileEntry(<< "types", "paths.d.ts" >>,
                  PathsHead
                  \o (IF unions = << >> THEN << NeverLine >> ELSE unions)
                  \o PathsTail,
                  TRUE)

(***************************************************************************)
(* getI18nDeclarationEntry.  A message is [name, description, message];    *)
(* description is its sequence of lines (split on newlines), and an empty  *)
(* description or message is the falsy value the code tests for.           *)
(***************************************************************************)
I18nHead ==
    << L(Marker), L("import \"wxt/browser\";"), L(""),
       L("declare module \"wxt/browser\" {"),
       L("  interface GetMessageOptions {"),
       L("    escapeLt?: boolean"),
       L("  }"), L(""),
       L("  export interface WxtI18n extends I18n.Static {") >>

I18nTail == << L("  }"), L("}"), L("") >>

GetMessageSig == "getMessage(messageName: {keyType}, substitutions?, options?): string;"

CommentLine(line) ==
    IF line = "" THEN L("     *") ELSE Line("     * {line}", << line >>)

\* utils/i18n parseI18nMessages: one Message per record of the catalog
parseI18nMessages(content) == content

Quoted(name) == "\"" \o name \o "\""

renderGetMessageOverload(keyType, description, translation) ==
    LET commentLines ==
            IF translation # ""
            THEN description
                 \o (IF Len(description) > 0 THEN << "" >> ELSE << >>)
                 \o << Quoted(translation) >>
            ELSE description
        comment ==
            IF Len(commentLines) > 0
            THEN << L("    /**") >> \o Map(CommentLine, commentLines)
                 \o << L("     */") >>
            ELSE << >>
    IN  comment \o << Line(GetMessageSig, keyType) >>

MessageName(message) == Quoted(message.name)

MessageOverload(message) ==
    renderGetMessageOverload(<< MessageName(message) >>, message.description,
                             message.message)

\* the `messages` array read from the default-locale file
Messages(file) ==
    IF file.exists THEN parseI18nMessages(file.content)
    ELSE parseI18nMessages(<< >>)

\* getI18nDeclarationEntry without the final union overload of lines 181-183
getI18nDeclarationEntryNoCatchAll(file) ==
    LET messages  == Messages(file)
        overrides == Flatten(Map(MessageOverload, messages))
    IN  FileEntry(<< "types", "i18n.d.ts" >>,
                  I18nHead \o overrides \o I18nTail, TRUE)

getI18nDeclarationEntry(file) ==
    LET messages  == Messages(file)
        overrides ==
            Flatten(Map(MessageOverload, messages))
            \o renderGetMessageOverload(
                   Join(Map(MessageName, messages), " | "), << >>, "")
    IN  FileEntry(<< "types", "i18n.d.ts" >>,
                  I18nHead \o overrides \o I18nTail, TRUE)

\* JSON.parse of the default-locale file throws
I18nThrows(file) == file.exists /\ ~file.valid

(***************************************************************************)
(* getGlobalsDeclarationEntry.                                             *)
(***************************************************************************)
\* utils/globals getGlobals(wxt.config): the build-wide globals
getGlobals ==
    << [name |-> "MANIFEST_VERSION", type |-> "2 | 3"],
       [name |-> "BROWSER", type |-> "string"] >>

\* utils/globals getEntrypointGlobals(''): the entrypoint-scoped globals
getEntrypointGlobals == << [name |-> "ENTRYPOINT", type |-> "string"] >>

GlobalLine(global) ==
    Line("  readonly {name}: {type};", << global.name, global.type >>)

\* getGlobalsDeclarationEntry without the marker line 198
getGlobalsDeclarationEntryUnmarked ==
    LET globals == getGlobals \o getEntrypointGlobals
    IN  FileEntry(<< "types", "globals.d.ts" >>,
                  << L("interface ImportMetaEnv {") >>
                  \o Map(GlobalLine, globals)
                  \o << L("}"), L("interface ImportMeta {"),
                        L("  readonly env: ImportMetaEnv"), L("}"), L("") >>,
                  TRUE)

getGlobalsDeclarationEntry ==
    LET globals == getGlobals \o getEntrypointGlobals
    IN  FileEntry(<< "types", "globals.d.ts" >>,
                  << L(Marker), L("interface ImportMetaEnv {") >>
                  \o Map(GlobalLine, globals)
                  \o << L("}"), L("interface ImportMeta {"),
                        L("  readonly env: ImportMetaEnv"), L("}"), L("") >>,
                  TRUE)

(***************************************************************************)
(* getMainDeclarationEntry.                                                *)
(***************************************************************************)
ReferenceSig == "/// <reference types=\"{types}\" />"

ModuleReference(ref) == Line(ReferenceSig, << ref.module >>)

\* normalizePath leaves a path of segments as it is
FileReference(ref) ==
    LET absolutePath == resolve(WxtDir, ref.path)
        relativePath == relative(WxtDir, absolutePath)
    IN  Line(ReferenceSig, << "." >> \o relativePath)

RECURSIVE ReferenceLines(_)
ReferenceLines(references) ==
    IF references = << >> THEN << >>
    ELSE LET ref == Head(references)
         IN  (IF ref.kind = "module" THEN << ModuleReference(ref) >>
              ELSE IF ref.tsReference THEN << FileReference(ref) >>
              ELSE << >>)
             \o ReferenceLines(Tail(references))

RECURSIVE ReferenceLinesAllFiles(_)
ReferenceLinesAllFiles(references) ==
    IF references = << >> THEN << >>
    ELSE LET ref == Head(references)
         IN  << IF ref.kind = "module" THEN ModuleReference(ref)
                ELSE FileReference(ref) >>
             \o ReferenceLinesAllFiles(Tail(references))

\* getMainDeclarationEntry without the tsReference test of line 216
getMainDeclarationEntryAllFiles(references) ==
    FileEntry(<< "wxt.d.ts" >>,
              << L(Marker) >> \o ReferenceLinesAllFiles(references)
              \o << L("") >>,
              FALSE)

getMainDeclarationEntry(references) ==
    FileEntry(<< "wxt.d.ts" >>,
              << L(Marker) >> \o ReferenceLines(references) \o << L("") >>,
              FALSE)

(***************************************************************************)
(* getTsConfigEntry.                                                       *)
(***************************************************************************)
Alias == << [alias |-> "@", absolutePath |-> << "project", "src" >>] >>

StartsWithDot(seg) == seg \in {".", "..", ".wxt", ".output"}

getTsconfigPath(path) ==
    LET res == relative(WxtDir, path)
    IN  IF res # << >> /\ StartsWithDot(Head(res)) THEN res
        ELSE << "." >> \o res

\* lines joined with ',\n': every line but the last ends with a comma
CommaJoined(lines) ==
    [i \in 1..Len(lines) |->
        IF i < Len(lines) THEN Line(lines[i].s \o ",", lines[i].arg)
        ELSE lines[i]]

AliasLines(a) ==
    LET aliasPath == getTsconfigPath(a.absolutePath)
    IN  << Line("      \"{alias}\": [\"{aliasPath}\"]", << a.alias >> \o aliasPath),
           Line("      \"{alias}/*\": [\"{aliasPath}/*\"]", << a.alias >> \o aliasPath) >>

getTsConfigEntry ==
    FileEntry(<< "tsconfig.json" >>,
              << L("{"), L("  \"compilerOptions\": {"),
                 L("    \"target\": \"ESNext\", ... \"skipLibCheck\": true,"),
                 L("    \"paths\": {") >>
              \o CommaJoined(Flatten(Map(AliasLines, Alias)))
              \o << L("    }"), L("  },"), L("  \"include\": ["),
                    Line("    \"{root}/**/*\",", getTsconfigPath(Root)),
                    L("    \"./wxt.d.ts\""), L("  ],"),
                    Line("  \"exclude\": [\"{outBaseDir}\"]",
                         getTsconfigPath(OutBaseDir)),
                    L("}") >>,
              FALSE)

(***************************************************************************)
(* Inputs of a pass.                                                       *)
(***************************************************************************)
SeqsUpTo(S, n) == UNION {[1..k -> S] : k \in 0..n}

EntrypointNames == { << "a" >>, << "b" >>, << "a", "/", "b" >> }

Entrypoints == [name : EntrypointNames, html : BOOLEAN]

AssetPaths == { << "c", ".", "p", "n", "g" >>, << "a", "\\", "c", ".", "p", "n", "g" >> }

NoLocaleFile == [exists |-> FALSE, valid |-> TRUE, content |-> << >>]

MalformedLocaleFile == [exists |-> TRUE, valid |-> FALSE, content |-> << >>]

LocaleFile(content) == [exists |-> TRUE, valid |-> TRUE, content |-> content]

Greet ==
    [name |-> "greet", description |-> << "Greeting", "shown on start" >>,
     message |-> "Hello"]

Farewell == [name |-> "farewell", description |-> << >>, message |-> "Bye"]

Bare == [name |-> "bare", description |-> << >>, message |-> ""]

Titled == [name |-> "title", description |-> << "Title" >>, message |-> "wxt"]

Described == [name |-> "described", description |-> << "Only described" >>, message |-> ""]

MessagePool == { Greet, Farewell, Bare, Described, Titled }

\* catalogs: the records of a JSON object have distinct keys
Catalogs ==
    { c \in SeqsUpTo(MessagePool, MaxMessages) :
        \A i, j \in 1..Len(c) : i # j => c[i].name # c[j].name }

UserModules ==
    << [type |-> "node_module", id |-> "wxt-module-analytics"],
       [type |-> "local", id |-> "local-module"] >>

HookText == << L("// added by a module") >>

\* entries a prepare:types hook may append
HookEntryPool ==
    { ModuleEntry("hook-types"),
      FileEntry(<< "types", "extra.d.ts" >>, HookText, TRUE),
      FileEntry(<< "extra", "schema.ts" >>, HookText, FALSE),
      FileEntry(<< "types", "paths.d.ts" >>, HookText, FALSE),
      FileEntry(<< ".", "wxt.d.ts" >>, HookText, TRUE) }

\* a prepare:types hook that appends the entries `added`
Appending(added) ==
    [publicPaths |-> << >>, types |-> added, typesThrows |-> FALSE]

\* a prepare:types hook that throws
Throwing == [publicPaths |-> << >>, types |-> << >>, typesThrows |-> TRUE]

\* no module registered, or one module whose hook appends one entry or throws
TypesHooks ==
    { Appending(<< >>), Throwing } \cup { Appending(<< e >>) : e \in HookEntryPool }

NoFault == [op |-> "none", path |-> << >>]

FsFaults ==
    { NoFault,
      [op |-> "ensureDir", path |-> TypesDir],
      [op |-> "ensureDir", path |-> WxtDir \o << "extra" >>],
      [op |-> "writeFile", path |-> WxtDir \o << "tsconfig.json" >>] }

(***************************************************************************)
(* The pass: generateWxtDir.                                               *)
(***************************************************************************)
\* generateWxtDir with the hook of line 49 called before line 46
StepAfterHookEarly(p) ==
    CASE p = "ensureDir" -> "paths"
      [] p = "paths" -> "i18n"
      [] p = "i18n" -> "globals"
      [] p = "globals" -> "hook"
      [] p = "hook" -> "tsconfig"
      [] p = "tsconfig" -> "main"
      [] p = "main" -> "write"

StepAfter(p) ==
    CASE p = "ensureDir" -> "paths"
      [] p = "paths" -> "i18n"
      [] p = "i18n" -> "globals"
      [] p = "globals" -> "tsconfig"
      [] p = "tsconfig" -> "hook"
      [] p = "hook" -> "main"
      [] p = "main" -> "write"

Prefixes(p) == { SubSeq(p, 1, k) : k \in 1..Len(p) }

\* fs.ensureDir: mkdir -p
ensureDir(d) == dirs \cup Prefixes(d)

ensureDirFails(d) == fsFault.op = "ensureDir" /\ fsFault.path \in Prefixes(d)

writeFileFails(file) == fsFault.op = "writeFile" /\ fsFault.path = file

NodeModuleEntries ==
    LET keep(m) == m.type = "node_module"
        entry(m) == ModuleEntry(m.id)
    IN  Map(entry, SelectSeq(config.userModules, keep))

HardCodedEntries == << ModuleEntry("wxt/vite-builder-env") >> \o NodeModuleEntries

Quiescent == \A i \in 1..Len(tasks) : tasks[i].st \in {"done", "failed"}

\* a trigger (build, dev server, prepare) calls generateWxtDir
StartPass ==
    /\ pc \in {"idle", "done", "failed"}
    /\ Quiescent
    /\ passNo < MaxPasses
    /\ pc' = "ensureDir"
    /\ passNo' = passNo + 1
    /\ prevCompleted' = (pc = "done")
    /\ entries' = << >>
    /\ tasks' = << >>
    /\ hookCalls' = 0
    /\ hookSaw' = << >>
    /\ writes' = 0
    /\ diskAtStart' = disk
    /\ UNCHANGED << inputs, disk, dirs >>

\* the developer edits the default-locale messages.json between two passes
EditLocaleFile ==
    /\ pc \in {"done", "failed"}
    /\ Quiescent
    /\ passNo < MaxPasses
    /\ localeFile.exists
    /\ localeFile' = IF localeFile.valid THEN MalformedLocaleFile
                     ELSE LocaleFile(<< Greet >>)
    /\ pc' = "idle"
    /\ UNCHANGED << entrypoints, publicFiles, config, hooks, fsFault, entries,
                    tasks, disk, dirs, hookCalls, hookSaw, writes, diskAtStart,
                    passNo, prevCompleted >>

\* line 16, then lines 18-29
EnsureTypesDir ==
    /\ pc = "ensureDir"
    /\ ~ensureDirFails(TypesDir)
    /\ dirs' = ensureDir(TypesDir)
    /\ entries' = HardCodedEntries
    /\ pc' = StepAfter(pc)
    /\ UNCHANGED << inputs, tasks, disk, hookCalls, hookSaw, writes,
                    diskAtStart, passNo, prevCompleted >>

\* line 16 rejects
EnsureTypesDirFails ==
    /\ pc = "ensureDir"
    /\ ensureDirFails(TypesDir)
    /\ pc' = "failed"
    /\ UNCHANGED << inputs, entries, tasks, disk, dirs, hookCalls, hookSaw,
                    writes, diskAtStart, passNo, prevCompleted >>

Generated(e) ==
    /\ entries' = Append(entries, e)
    /\ pc' = StepAfter(pc)
    /\ UNCHANGED << inputs, tasks, disk, dirs, hookCalls, hookSaw, writes,
                    diskAtStart, passNo, prevCompleted >>

Rejected ==
    /\ pc' = "failed"
    /\ UNCHANGED << inputs, entries, tasks, disk, dirs, hookCalls, hookSaw,
                    writes, diskAtStart, passNo, prevCompleted >>

\* line 32
PathsStep ==
    /\ pc = "paths"
    /\ Generated(getPathsDeclarationEntry(entrypoints, publicFiles,
                                          hooks.publicPaths))

\* line 35 with the JSON.parse error of line 142 caught and ignored
I18nStepSwallows ==
    /\ pc = "i18n"
    /\ Generated(getI18nDeclarationEntry(
                    IF I18nThrows(localeFile) THEN NoLocaleFile ELSE localeFile))

\* line 35
I18nStep ==
    /\ pc = "i18n"
    /\ IF I18nThrows(localeFile) THEN Rejected
       ELSE Generated(getI18nDeclarationEntry(localeFile))

\* lines 38-43
GlobalsStep ==
    /\ pc = "globals"
    /\ entries' = Append(entries, getGlobalsDeclarationEntry)
                   \o (IF config.extensionApi = "chrome"
                       THEN << ModuleEntry("@types/chrome") >> ELSE << >>)
    /\ pc' = StepAfter(pc)
    /\ UNCHANGED << inputs, tasks, disk, dirs, hookCalls, hookSaw, writes,
                    diskAtStart, passNo, prevCompleted >>

\* line 46
TsConfigStep ==
    /\ pc = "tsconfig"
    /\ Generated(getTsConfigEntry)

\* line 49
TypesHook ==
    /\ pc = "hook"
    /\ hookCalls' = hookCalls + 1
    /\ hookSaw' = entries
    /\ IF hooks.typesThrows
       THEN pc' = "failed" /\ UNCHANGED entries
       ELSE pc' = StepAfter(pc) /\ entries' = entries \o hooks.types
    /\ UNCHANGED << inputs, tasks, disk, dirs, writes, diskAtStart, passNo,
                    prevCompleted >>

IsFile(entry) == entry.kind = "file"

Task(entry) ==
    [path |-> resolve(WxtDir, entry.path), text |-> entry.text, st |-> "ensureDir"]

\* lines 52-63: compose wxt.d.ts, then start one write per file entry
WriteAll ==
    /\ pc = "main"
    /\ LET all == Append(entries, getMainDeclarationEntry(entries))
       IN  /\ entries' = all
           /\ tasks' = Map(Task, SelectSeq(all, IsFile))
    /\ pc' = StepAfter(pc)
    /\ UNCHANGED << inputs, disk, dirs, hookCalls, hookSaw, writes,
                    diskAtStart, passNo, prevCompleted >>

\* a rejected promise of the write phase rejects Promise.all at once
TaskFails(i) ==
    /\ tasks' = [tasks EXCEPT ![i].st = "failed"]
    /\ pc' = IF pc = "write" THEN "failed" ELSE pc

\* line 64
TaskEnsureDir(i) ==
    /\ tasks[i].st = "ensureDir"
    /\ ~ensureDirFails(dirname(tasks[i].path))
    /\ dirs' = ensureDir(dirname(tasks[i].path))
    /\ tasks' = [tasks EXCEPT ![i].st = "read"]
    /\ UNCHANGED << inputs, pc, entries, disk, hookCalls, hookSaw, writes,
                    diskAtStart, passNo, prevCompleted >>

TaskEnsureDirFails(i) ==
    /\ tasks[i].st = "ensureDir"
    /\ ensureDirFails(dirname(tasks[i].path))
    /\ TaskFails(i)
    /\ UNCHANGED << inputs, entries, disk, dirs, hookCalls, hookSaw, writes,
                    diskAtStart, passNo, prevCompleted >>

\* utils/fs writeFileIfDifferent: read the file, compare
Different(file, newContents) ==
    file \notin DOMAIN disk \/ disk[file] # newContents

\* line 65, up to the comparison
TaskRead(i) ==
    /\ tasks[i].st = "read"
    /\ tasks' = [tasks EXCEPT ![i].st =
                    IF Different(tasks[i].path, tasks[i].text)
                    THEN "write" ELSE "done"]
    /\ UNCHANGED << inputs, pc, entries, disk, dirs, hookCalls, hookSaw,
                    writes, diskAtStart, passNo, prevCompleted >>

writeFile(file, contents) ==
    [f \in DOMAIN disk \cup {file} |-> IF f = file THEN contents ELSE disk[f]]

\* line 65, the fs.writeFile of writeFileIfDifferent
TaskWrite(i) ==
    /\ tasks[i].st = "write"
    /\ ~writeFileFails(tasks[i].path)
    /\ disk' = writeFile(tasks[i].path, tasks[i].text)
    /\ writes' = writes + 1
    /\ tasks' = [tasks EXCEPT ![i].st = "done"]
    /\ UNCHANGED << inputs, pc, entries, dirs, hookCalls, hookSaw,
                    diskAtStart, passNo, prevCompleted >>

TaskWriteFails(i) ==
    /\ tasks[i].st = "write"
    /\ writeFileFails(tasks[i].path)
    /\ TaskFails(i)
    /\ UNCHANGED << inputs, entries, disk, dirs, hookCalls, hookSaw, writes,
                    diskAtStart, passNo, prevCompleted >>

\* lines 62-68: Promise.all resolves
Resolve ==
    /\ pc = "write"
    /\ \A i \in 1..Len(tasks) : tasks[i].st = "done"
    /\ pc' = "done"
    /\ UNCHANGED << inputs, entries, tasks, disk, dirs, hookCalls, hookSaw,
                    writes, diskAtStart, passNo, prevCompleted >>

Config(modules, api) == [userModules |-> modules, extensionApi |-> api]

Idle ==
    /\ pc = "idle"
    /\ entries = << >>
    /\ tasks = << >>
    /\ disk = << >>
    /\ dirs = {}
    /\ hookCalls = 0
    /\ hookSaw = << >>
    /\ writes = 0
    /\ diskAtStart = << >>
    /\ passNo = 0
    /\ prevCompleted = FALSE

Scenarios ==
    { << Config(<< >>, "webextension-polyfill"), NoLocaleFile >>,
      << Config(UserModules, "chrome"), LocaleFile(<< Greet >>) >>,
      << Config(UserModules, "chrome"), MalformedLocaleFile >> }

Init ==
    /\ entrypoints = << [name |-> << "b" >>, html |-> FALSE],
                        [name |-> << "a" >>, html |-> TRUE] >>
    /\ publicFiles = << >>
    /\ \E sc \in Scenarios : config = sc[1] /\ localeFile = sc[2]
    /\ hooks \in TypesHooks
    /\ fsFault \in FsFaults
    /\ Idle

Next ==
    \/ StartPass
    \/ EditLocaleFile
    \/ EnsureTypesDir
    \/ EnsureTypesDirFails
    \/ PathsStep
    \/ I18nStep
    \/ GlobalsStep
    \/ TsConfigStep
    \/ TypesHook
    \/ WriteAll
    \/ \E i \in 1..Len(tasks) : TaskEnsureDir(i)
    \/ \E i \in 1..Len(tasks) : TaskEnsureDirFails(i)
    \/ \E i \in 1..Len(tasks) : TaskRead(i)
    \/ \E i \in 1..Len(tasks) : TaskWrite(i)
    \/ \E i \in 1..Len(tasks) : TaskWriteFails(i)
    \/ Resolve

Spec == Init /\ [][Next]_vars

(***************************************************************************)
(* The generators on their own: a pass that has reached the generator,     *)
(* with the generator's inputs drawn from wider sets.                      *)
(***************************************************************************)
HookPathPool == { << "a" >>, << "b", ".", "j", "s" >> }

Running(at, before) ==
    /\ pc = at
    /\ entries = HardCodedEntries \o before
    /\ tasks = << >>
    /\ disk = << >>
    /\ dirs = Prefixes(TypesDir)
    /\ hookCalls = 0
    /\ hookSaw = << >>
    /\ writes = 0
    /\ diskAtStart = << >>
    /\ passNo = 1
    /\ prevCompleted = FALSE

InitPaths ==
    /\ entrypoints \in SeqsUpTo(Entrypoints, MaxEntrypoints)
    /\ publicFiles \in SeqsUpTo(AssetPaths, MaxPublicFiles)
    /\ hooks \in [publicPaths : SeqsUpTo(HookPathPool, MaxHookPaths),
                   types : {<< >>}, typesThrows : {FALSE}]
    /\ config = Config(<< >>, "chrome")
    /\ localeFile = NoLocaleFile
    /\ fsFault = NoFault
    /\ Running("paths", << >>)

NextPaths == PathsStep

SpecPaths == InitPaths /\ [][NextPaths]_vars

InitI18n ==
    /\ entrypoints = << >>
    /\ publicFiles = << >>
    /\ hooks \in { Appending(<< >>), Throwing }
    /\ config \in { Config(<< >>, "webextension-polyfill"),
                     Config(UserModules, "chrome") }
    /\ localeFile \in { NoLocaleFile, MalformedLocaleFile }
                       \cup { LocaleFile(c) : c \in Catalogs }
    /\ fsFault = NoFault
    /\ Running("i18n", << getPathsDeclarationEntry(<< >>, << >>, << >>) >>)

NextI18n == I18nStep

SpecI18n == InitI18n /\ [][NextI18n]_vars

(***************************************************************************)
(* The generation phase on its own (lines 16-63, up to the start of the    *)
(* writes), with the configuration and the hook drawn from wider sets.     *)
(***************************************************************************)
InitCompose ==
    /\ entrypoints = << [name |-> << "b" >>, html |-> FALSE] >>
    /\ publicFiles = << >>
    /\ config \in { Config(m, api) : m \in {<< >>, UserModules},
                                      api \in {"chrome", "webextension-polyfill"} }
    /\ localeFile \in { NoLocaleFile, MalformedLocaleFile,
                         LocaleFile(<< Greet >>) }
    /\ hooks \in { Appending(added) :
                      added \in SeqsUpTo(HookEntryPool, MaxHookEntries) }
                  \cup { Throwing }
    /\ fsFault \in { NoFault, [op |-> "ensureDir", path |-> TypesDir] }
    /\ Idle

NextCompose ==
    \/ StartPass
    \/ EnsureTypesDir
    \/ EnsureTypesDirFails
    \/ PathsStep
    \/ I18nStep
    \/ GlobalsStep
    \/ TsConfigStep
    \/ TypesHook
    \/ WriteAll

SpecCompose == InitCompose /\ [][NextCompose]_vars

(***************************************************************************)
(* Properties.                                                             *)
(***************************************************************************)
\* the write phase of the current pass has been entered: wxt.d.ts is composed
Composed == tasks # << >>

MainEntry == entries[Len(entries)]

\* the collection as it stood when the prepare:types hook returned
Collection == SubSeq(entries, 1, Len(entries) - 1)

\* the reference directives of a wxt.d.ts text
Directives(text) == SubSeq(text, 2, Len(text) - 1)

Contributes(entry) == entry.kind = "module" \/ entry.tsReference

PathOf(file) == << "types", file >>

\* C1: the reference directives of wxt.d.ts are, in order, one per module
\* entry and one per file entry with tsReference = true of the collection as
\* it stands when the prepare:types hook has returned; that collection is
\* the hard-coded entries, then paths, i18n, globals, tsconfig in this
\* order, then the entries the hook appended.
C1_ReferenceDirectives ==
    Composed =>
        LET refs    == Directives(MainEntry.text)
            sources == SelectSeq(Collection, Contributes)
            k       == Len(HardCodedEntries)
            g       == Len(hookSaw)
        IN  /\ Len(refs) = Len(sources)
            /\ \A i \in 1..Len(refs) :
                  /\ refs[i].s = ReferenceSig
                  /\ refs[i].arg =
                        IF sources[i].kind = "module"
                        THEN << sources[i].module >>
                        ELSE << "." >>
                             \o relative(WxtDir, resolve(WxtDir, sources[i].path))
            /\ SubSeq(Collection, 1, k) = HardCodedEntries
            /\ Collection[k + 1].path = PathOf("paths.d.ts")
            /\ Collection[k + 2].path = PathOf("i18n.d.ts")
            /\ Collection[k + 3].path = PathOf("globals.d.ts")
            /\ Collection[g].path = << "tsconfig.json" >>
            /\ SubSeq(Collection, g + 1, Len(Collection)) = hooks.types

C1_Witness ==
    /\ Composed
    /\ config.extensionApi = "chrome"
    /\ config.userModules = UserModules
    /\ hooks.types = << FileEntry(<< "extra", "schema.ts" >>, HookText, FALSE),
                        FileEntry(<< "types", "extra.d.ts" >>, HookText, TRUE) >>
    /\ Directives(MainEntry.text)
         = << Line(ReferenceSig, << "wxt/vite-builder-env" >>),
              Line(ReferenceSig, << "wxt-module-analytics" >>),
              Line(ReferenceSig, << ".", "types", "paths.d.ts" >>),
              Line(ReferenceSig, << ".", "types", "i18n.d.ts" >>),
              Line(ReferenceSig, << ".", "types", "globals.d.ts" >>),
              Line(ReferenceSig, << "@types/chrome" >>),
              Line(ReferenceSig, << ".", "types", "extra.d.ts" >>) >>

\* C2: wxt.d.ts is the last entry handed to the write phase and its text
\* holds no reference directive that points at wxt.d.ts itself.
C2_MainLastNoSelfReference ==
    Composed =>
        /\ MainEntry.path = << "wxt.d.ts" >>
        /\ \A i \in 1..Len(MainEntry.text) :
              MainEntry.text[i] # Line(ReferenceSig, << ".", "wxt.d.ts" >>)

\* C3: a pass that follows a completed pass with unchanged inputs writes no
\* file.
C3_SecondPassWritesNothing ==
    (prevCompleted /\ pc \in {"write", "done"}) => writes = 0

\* C4: a malformed default-locale messages.json makes the pass fail at the
\* i18n generator, before a write is started: no file on disk is created or
\* modified in that pass.
C4_MalformedLocaleAborts ==
    (~localeFile.valid /\ pc \notin {"idle", "ensureDir", "paths", "i18n"})
    => /\ pc = "failed"
       /\ tasks = << >>
       /\ writes = 0
       /\ disk = diskAtStart

C4_Witness ==
    /\ ~localeFile.valid
    /\ pc = "failed"
    /\ Len(entries) = Len(HardCodedEntries) + 1
    /\ diskAtStart # << >>
    /\ disk = diskAtStart

\* C5: a failed pass has rewritten no file: the files on disk are those of
\* the last successfully generated layer.
C5_FailedPassLeavesDisk == pc = "failed" => disk = diskAtStart

\* C6: the file entries written concurrently target pairwise distinct paths
\* (a pass with two entries for one path fails before its writes start).
C6_DistinctPaths ==
    \A i, j \in 1..Len(tasks) : i # j => tasks[i].path # tasks[j].path

\* C7: in a pass the prepare:types hook runs once, after the four core
\* generators have put their entries in the collection and before wxt.d.ts
\* is composed from the extended collection; nothing is written before the
\* hook has returned.
C7_HookOrder ==
    /\ hookCalls <= 1
    /\ pc \in {"ensureDir", "paths", "i18n", "globals", "tsconfig", "hook"}
       => hookCalls = 0
    /\ pc \in {"main", "write", "done"} => hookCalls = 1
    /\ hookCalls = 0 => (tasks = << >> /\ writes = 0 /\ disk = diskAtStart)
    /\ hookCalls = 1 =>
          /\ \A f \in {PathOf("paths.d.ts"), PathOf("i18n.d.ts"),
                        PathOf("globals.d.ts"), << "tsconfig.json" >>} :
                \E i \in 1..Len(hookSaw) : hookSaw[i].path = f
          /\ \A i \in 1..Len(hookSaw) :
                hookSaw[i].path # << "wxt.d.ts" >>
    /\ Composed =>
          /\ hookCalls = 1
          /\ Collection = hookSaw \o hooks.types
          /\ MainEntry = getMainDeclarationEntry(hookSaw \o hooks.types)

C7_Witness ==
    /\ pc = "done"
    /\ hookCalls = 1
    /\ hooks.types # << >>
    /\ writes > 0

\* the file entries the pass's own generators have produced so far
GeneratorEntries ==
    LET own == IF hookCalls = 0 THEN entries ELSE hookSaw
    IN  { own[i] : i \in { j \in 1..Len(own) : IsFile(own[j]) } }
        \cup (IF Composed THEN { MainEntry } ELSE {})

\* C8 as stated: every file of the pass's own generators begins with the
\* machine-generated marker comment.
C8_AllBeginWithMarker ==
    \A e \in GeneratorEntries : e.text[1] = L(Marker)

\* C8 amended: the four declaration files (paths, i18n, globals, wxt.d.ts)
\* begin with the marker comment; tsconfig.json begins with its opening
\* brace and carries no marker.
C8_DeclarationsBeginWithMarker ==
    \A e \in GeneratorEntries :
        IF e.path = << "tsconfig.json" >>
        THEN e.text[1] = L("{") /\ \A i \in 1..Len(e.text) : e.text[i] # L(Marker)
        ELSE e.text[1] = L(Marker)

C8_Witness == Composed /\ Cardinality(GeneratorEntries) = 5

\* the paths.d.ts entry of the current pass and the members of its union
PathsEntry == entries[Len(HardCodedEntries) + 1]

UnionLines ==
    SubSeq(PathsEntry.text, Len(PathsHead) + 1,
           Len(PathsEntry.text) - Len(PathsTail))

InputPaths == PublicPaths(entrypoints, publicFiles, hooks.publicPaths)

Occurrences(x, seq) == Cardinality({ i \in 1..Len(seq) : seq[i] = x })

PathsDone == pc = "i18n" /\ Len(entries) = Len(HardCodedEntries) + 1

\* C9: the PublicPath union lists every input path (entrypoint bundle
\* paths, public assets, paths appended by prepare:publicPaths) once per
\* occurrence, in forward-slash form, prefixed with '/', sorted by code
\* units whatever the input order; without any path it is `never`.
C9_PublicPathUnion ==
    PathsDone =>
        LET members == [i \in 1..Len(UnionLines) |-> UnionLines[i].arg]
        IN  IF InputPaths = << >>
            THEN UnionLines = << NeverLine >>
            ELSE /\ Len(UnionLines) = Len(InputPaths)
                 /\ \A i \in 1..Len(UnionLines) :
                       /\ UnionLines[i].s = "    | \"/{path}\""
                       /\ \A k \in 1..Len(members[i]) : members[i][k] # "\\"
                 /\ \A i \in 1..Len(InputPaths) :
                       LET p == normalizePath(InputPaths[i])
                       IN  Occurrences(p, members)
                           = Cardinality({ j \in 1..Len(InputPaths) :
                                             normalizePath(InputPaths[j]) = p })
                 /\ \A i, j \in 1..Len(members) :
                       i < j => ~StrLess(members[j], members[i])

\* the example of the claim: [b.js, a.html] and [c.png]
C9_Witness ==
    /\ PathsDone
    /\ entrypoints = << [name |-> << "b" >>, html |-> FALSE],
                        [name |-> << "a" >>, html |-> TRUE] >>
    /\ publicFiles = << << "c", ".", "p", "n", "g" >> >>
    /\ hooks.publicPaths = << >>
    /\ UnionLines = << UnionLine(<< "a", ".", "h", "t", "m", "l" >>),
                       UnionLine(<< "b", ".", "j", "s" >>),
                       UnionLine(<< "c", ".", "p", "n", "g" >>) >>

\* the i18n.d.ts entry of the current pass and its getMessage overloads
I18nEntry == entries[Len(HardCodedEntries) + 2]

IsOverload(line) == line.s = GetMessageSig

Overloads == SelectSeq(I18nEntry.text, IsOverload)

I18nDone == pc = "globals" /\ Len(entries) = Len(HardCodedEntries) + 2

\* C10: a default-locale catalog of n distinct keys gives n + 1 getMessage
\* overloads: one per key in catalog order, then a catch-all whose type is
\* the union of those n keys; without the file the catalog is empty (the
\* catch-all alone) and the pass goes on.
C10_I18nOverloads ==
    /\ (pc = "globals" /\ ~localeFile.exists)
       => (Len(Overloads) = 1 /\ Overloads[1].arg = << >>)
    /\ (pc = "failed") => (localeFile.exists /\ ~localeFile.valid)
    /\ I18nDone =>
          LET catalog == IF localeFile.exists THEN localeFile.content ELSE << >>
              n       == Len(catalog)
              union   == Overloads[n + 1].arg
          IN  /\ Len(Overloads) = n + 1
              /\ \A i \in 1..n :
                    Overloads[i].arg = << "\"" \o catalog[i].name \o "\"" >>
              /\ Len(union) = IF n = 0 THEN 0 ELSE 2 * n - 1
              /\ \A i \in 1..n :
                    union[2 * i - 1] = "\"" \o catalog[i].name \o "\""
              /\ \A i \in 1..(n - 1) : union[2 * i] = " | "

\* the example of the claim: {greet, farewell} gives 3 overloads
C10_Witness ==
    /\ I18nDone
    /\ localeFile = LocaleFile(<< Greet, Farewell >>)
    /\ Len(Overloads) = 3
    /\ Overloads[3].arg = << "\"greet\"", " | ", "\"farewell\"" >>

====
